---- MODULE Spec2Model ----
(***************************************************************************)
(* The authenticated, paginated REST client of coinbase-auth-playground:   *)
(* cb_connect (signing, request building, transport) and the two paginators*)
(* cb_get_all_accounts / cb_get_all_orders.                                *)
(*                                                                         *)
(* Strings are sequences of tokens (a token is a string piece), so that    *)
(* concatenation is \o and split('?')[0] is a real prefix computation.     *)
(* A JSON record of the server is the object {"uuid": n}; the server hands *)
(* out fresh n, so every record of a run is distinguishable (the client    *)
(* never looks inside a record).                                           *)
(***************************************************************************)
EXTENDS Integers, Sequences, FiniteSets, TLC

(* ------------------------------ bounds -------------------------------- *)
\* The clock runs from 1 to MaxClock seconds.
MaxClock == 3
\* Records the server holds in all (its later pages are empty).
MaxRecords == 3
\* Records in one page.
MaxPageLen == 2
\* The ghost counters of requests and pages saturate here.
MaxCount == 3
\* Direct calls of cb_connect in one session.
MaxCalls == 2
\* Pages the server with finitely many pages has (below MaxCount, so that the
\* request counter tells MaxPages requests from more).
MaxPages == 2

(* ----------------------------- constants ------------------------------ *)
Resources == {"accounts", "orders"}

None == [none |-> TRUE]

\* cb_get_all_accounts passes url_path='/api/v3/brokerage/accounts', limit=50;
\* cb_get_all_orders '/api/v3/brokerage/orders/historical/batch', limit=100.
AccountsLimit == 50
OrdersLimit == 100

UrlPath(r) ==
    IF r = "accounts" THEN <<"/api/v3/brokerage/accounts">>
                      ELSE <<"/api/v3/brokerage/orders/historical/batch">>

Limit(r) == IF r = "accounts" THEN AccountsLimit ELSE OrdersLimit

\* record_path=['accounts'] / record_path=['orders']
RecordPath(r) == r

url_prefix == <<"https://coinbase.com">>

\* Cursor strings the server may return ('' is the empty string).
Cursors == {<<>>, <<"c1">>, <<"c2">>}

\* HTTP status codes the server may answer with.
Statuses == {200, 304, 401, 500}

\* What a direct caller of cb_connect may pass: a path, a query string
\* after it, a limit (50 is the default) and a cursor.
DirectPaths == { <<"/api/v3/brokerage/accounts">> }
DirectQueries == { <<>>, <<"?", "product_id=BTC-USD">> }
DirectLimits == { AccountsLimit, OrdersLimit }
DirectCursors == { <<>>, <<"c1">> }

\* What os.environ.get returns for a variable that is not set: Python's None,
\* kept apart from every string (the empty string is <<>>).
Absent == <<"<None>">>

\* What the environment holds for CB-API-SECRET and CB-API-KEY: a secret, the
\* empty string, or nothing.
Secrets == {<<"sk">>, <<>>, Absent}
ApiKeys == {<<"ak">>}

(* ------------------------- pure helpers ------------------------------- *)
Min(a, b) == IF a < b THEN a ELSE b

\* str(int(time.time())), str(limit)
Str(n) == <<ToString(n)>>

\* s.split('?')[0]: the part of s before its first '?'.
RECURSIVE SplitHead(_)
SplitHead(s) ==
    IF s = <<>> \/ Head(s) = "?" THEN <<>>
    ELSE <<Head(s)>> \o SplitHead(Tail(s))

\* A plain hash of the message, no key going into it.
HashUnkeyed(key, msg) == [alg |-> "sha256", key |-> <<>>, msg |-> msg]

\* hmac.new(key, msg, digestmod=hashlib.sha256).digest(): an ideal keyed hash,
\* injective in (key, msg).
Hmac(key, msg) == [alg |-> "hmac-sha256", key |-> key, msg |-> msg]

\* bytes.hex(): lowercase hexadecimal rendering, injective.
Hex(d) == [hex |-> d]

\* A url built without the cursor.
UrlWithoutCursor(url_path, limit, cur) ==
    url_prefix \o url_path \o <<"?limit=">> \o Str(limit)

\* url = url_prefix + url_path + '?limit=' + str(limit) [+ '&cursor=' + cursor]
Url(url_path, limit, cur) ==
    LET u == url_prefix \o url_path \o <<"?limit=">> \o Str(limit)
    IN  IF cur # <<>> THEN u \o <<"&cursor=">> \o cur ELSE u

\* A timestamp read once, when the module is loaded, and reused by every call.
TimestampAtImport(t) == Str(1)

\* timestamp = str(int(time.time())), t being the clock when cb_connect runs.
Timestamp(t) == Str(t)

\* The message cb_connect signs, with the query string signed too.
SignedPartWithQuery(url_path, limit, cur) ==
    url_path \o <<"?limit=">> \o Str(limit) \o
        (IF cur # <<>> THEN <<"&cursor=">> \o cur ELSE <<>>)

\* The path part of the signed message: url_path.split('?')[0]; limit and
\* cursor are appended to the url only.
SignedPart(url_path, limit, cur) == SplitHead(url_path)

\* The request cb_connect builds at clock reading t: the headers and the url
\* handed to requests.get, with the values they were computed from.
BuildRequest(url_path, limit, cur, secret_key, api_key, t) ==
    LET timestamp == Timestamp(t)
        method == <<"GET">>
        body == <<>>
        message == timestamp \o method \o SignedPart(url_path, limit, cur) \o body
        signature == Hmac(secret_key, message)
    IN  [ method |-> method,
          url_path |-> url_path,
          limit |-> limit,
          cursor |-> cur,
          body |-> body,
          message |-> message,
          url |-> Url(url_path, limit, cur),
          headers |-> [ accept |-> <<"application/json">>,
                        sign |-> Hex(signature),
                        key |-> api_key,
                        timestamp |-> timestamp ] ]

\* secret_key.encode('utf-8') raises AttributeError on None and encodes every
\* string, the empty one too.
EncodeRaises(secret_key) == secret_key = Absent

\* A status of the 2xx class.
Is2xx(status) == 200 <= status /\ status < 300

\* response.raise_for_status() raises for 4xx and 5xx only.
RaisesForStatus(status) == 400 <= status /\ status < 600

(* ------------------------- server responses --------------------------- *)
\* The value of the record field in a JSON body.
JList(items) == [kind |-> "list", items |-> items]
JNull == [kind |-> "null", items |-> <<>>]
JObject == [kind |-> "object", items |-> <<>>]

\* The records uuid = from+1 .. from+n
FreshRecords(from, n) == [i \in 1..n |-> from + i]

\* A JSON object body: the keys it has, and their values (an absent key
\* carries a fixed filler, so that one body has one representation).
Body(keys, hn, cu, field, value) ==
    [ keys |-> keys,
      has_next |-> IF "has_next" \in keys THEN hn ELSE FALSE,
      cursor |-> IF "cursor" \in keys THEN cu ELSE <<>>,
      field |-> IF "records" \in keys THEN field ELSE "accounts",
      value |-> IF "records" \in keys THEN value ELSE JNull ]

AllKeys == {"has_next", "cursor", "records"}

NotJson == [ keys |-> {}, has_next |-> FALSE, cursor |-> <<>>, field |-> "accounts",
             value |-> JNull, notjson |-> TRUE ]

IsJson(text) == "notjson" \notin DOMAIN text

\* Pages as the API documents them: has_next, cursor and the record array of
\* the resource asked for, holding the next n records of the server.
PageBodies(r, from) ==
    { Body(AllKeys, hn, cu, r, JList(FreshRecords(from, n))) :
        hn \in BOOLEAN, cu \in Cursors,
        n \in 0..Min(MaxPageLen, MaxRecords - from) }

\* Bodies that are not such a page: not JSON at all, a key missing, the
\* record array of the other resource, a record field that is null or an
\* object.
OtherBodies(r, from) ==
    LET items == FreshRecords(from, Min(1, MaxRecords - from))
        other == CHOOSE q \in Resources : q # r
    IN  {NotJson} \cup
        { Body(AllKeys \ {k}, hn, <<"c1">>, r, JList(items)) :
            k \in AllKeys, hn \in BOOLEAN } \cup
        { Body(AllKeys, TRUE, <<"c1">>, other, JList(items)) } \cup
        { Body(AllKeys, hn, cu, r, JNull) : hn \in BOOLEAN, cu \in Cursors } \cup
        { Body(AllKeys, hn, <<"c1">>, r, JObject) : hn \in BOOLEAN }

\* The bodies sent with a status that is neither 2xx nor an error status.
RedirectBodies(r, from) ==
    { NotJson } \cup
    { Body(AllKeys, hn, <<"c1">>, r, JList(FreshRecords(from, Min(1, MaxRecords - from)))) :
        hn \in BOOLEAN }

\* The bodies a server that has handed out `from` records may send.
Bodies(r, from) == PageBodies(r, from) \cup OtherBodies(r, from)

(* ---------------------------- pandas ---------------------------------- *)
\* The flattened column names of a record (all records of a resource have
\* the same keys).
RecordColumns == <<"uuid">>

\* One record as a row of values in column order, and back.
ToRow(rec) == <<rec>>
FromRow(columns, row) == row[1]

\* pd.json_normalize(json, record_path=[path]) on a list: one row per record,
\* and no column at all when there is no record.
JsonNormalize(items) ==
    [ columns |-> IF items = <<>> THEN <<>> ELSE RecordColumns,
      rows |-> [i \in 1..Len(items) |-> ToRow(items[i])] ]

\* pd.DataFrame(lst): as many (numbered) columns as the rows are wide.
DataFrameWidth(lst) == IF lst = <<>> THEN 0 ELSE Len(lst[1])

\* The records a returned DataFrame presents, in row order.
RecordsOf(df) == [i \in 1..Len(df.rows) |-> FromRow(df.columns, df.rows[i])]

\* No DataFrame.
NoFrame == [columns |-> <<>>, rows |-> <<>>]

(* ------------------------- the paginator ------------------------------ *)
\* A loop that never looks at has_next.
LoopForever(hn) == TRUE

\* while has_next: the test that keeps the paginator in its loop.
LoopTest(hn) == hn

\* A requests.get that returned at once, leaving the paginator in its loop.
AfterSendNoWait == "while"

\* Where the paginator is once requests.get has been called: the call blocks
\* until the answer is there.
AfterSend == "await"

\* The exception lines 157-160 raise on the value cb_connect returned, or
\* "none": response.text, json.loads, json['has_next'], json['cursor'],
\* pd.json_normalize(json, record_path=[path]).
ParseError(r, resp) ==
    IF resp = None THEN "AttributeError"
    ELSE IF ~IsJson(resp.text) THEN "JSONDecodeError"
    ELSE IF "has_next" \notin resp.text.keys THEN "KeyError"
    ELSE IF "cursor" \notin resp.text.keys THEN "KeyError"
    ELSE IF "records" \notin resp.text.keys \/ resp.text.field # RecordPath(r)
        THEN "KeyError"
    ELSE IF resp.text.value.kind = "object" THEN "TypeError"
    ELSE "none"

\* The records json_normalize pulls: a null record field counts as no record.
PullRecords(value) == IF value.kind = "list" THEN value.items ELSE <<>>

\* lst.extend(tmp_lst)
Extend(l, rows) == l \o rows

\* The frame of one call of cb_get_all_*: where it is, its locals, and what
\* it has returned or raised. Python creates one per call; nothing else can
\* reach its locals.
FrameAtStart ==
    [ pc |-> "idle", has_next |-> FALSE, cursor |-> <<>>, lst |-> <<>>,
      tmp_df |-> NoFrame, result |-> None, exc |-> "none" ]

\* The frame after `raise e` / `return df`: the locals are gone.
Raised(f, e) ==
    [ pc |-> "raised", has_next |-> FALSE, cursor |-> <<>>, lst |-> <<>>,
      tmp_df |-> NoFrame, result |-> f.result, exc |-> e ]

Returned(f, df) ==
    [ pc |-> "returned", has_next |-> FALSE, cursor |-> <<>>, lst |-> <<>>,
      tmp_df |-> NoFrame, result |-> df, exc |-> f.exc ]

\* The statements of cb_get_all_* as functions of its own frame and of the
\* value cb_connect returned: the prologue, the call of cb_connect up to
\* requests.get, its return, the rest of the loop body, the epilogue.
AloneCall(f) ==
    [f EXCEPT !.pc = "while", !.has_next = TRUE, !.cursor = <<>>, !.lst = <<>>]

AloneSend(f, secret_key) ==
    IF EncodeRaises(secret_key) THEN Raised(f, "AttributeError")
    ELSE [f EXCEPT !.pc = AfterSend]

AloneReceive(f) == [f EXCEPT !.pc = "parse"]

AloneProcess(r, f, resp) ==
    IF ParseError(r, resp) # "none" THEN Raised(f, ParseError(r, resp))
    ELSE LET df == JsonNormalize(PullRecords(resp.text.value))
         IN  [f EXCEPT !.pc = "while",
                       !.has_next = resp.text.has_next,
                       !.cursor = resp.text.cursor,
                       !.tmp_df = df,
                       !.lst = Extend(@, df.rows)]

AloneFinish(f) ==
    IF Len(f.tmp_df.columns) # DataFrameWidth(f.lst) THEN Raised(f, "ValueError")
    ELSE Returned(f, [columns |-> f.tmp_df.columns, rows |-> f.lst])

(* ----------------------------- state ---------------------------------- *)
VARIABLES
    now,            \* int(time.time())
    CB_API_KEY,     \* module globals loaded from the environment
    CB_SECRET_KEY,
    supply,         \* server: how many records it has handed out
    toRun,          \* the paginators this session runs (none: direct calls)
    calls,          \* the requests of the direct calls of cb_connect
    pc,             \* per paginator: idle, while, await, parse, returned, raised
    has_next,       \* locals of cb_get_all_*
    cursor,
    lst,
    tmp_df,
    response,
    result,         \* the DataFrame returned, or None
    exc,            \* the exception that left cb_get_all_*, or "none"
    request,        \* the last request handed to requests.get, or None
    inflight,       \* requests sent and not yet answered
    outcome,        \* ghost: what the transport met on the last request
    nreq,           \* ghost: requests issued (saturating)
    npages,         \* ghost: pages parsed and appended (saturating)
    served,         \* ghost: the records of the pages served, page after page
    failure,        \* ghost: the first failed page fetch as classified, or "none"
    alone           \* ghost: the frame of the same call run on its own

vars == << now, CB_API_KEY, CB_SECRET_KEY, supply, toRun, calls, pc, has_next, cursor, lst,
           tmp_df, response, result, exc, request, inflight, outcome,
           nreq, npages, served, failure, alone >>

creds == << CB_API_KEY, CB_SECRET_KEY >>

Init ==
    /\ now = 1
    /\ CB_API_KEY \in ApiKeys
    /\ CB_SECRET_KEY \in Secrets
    /\ supply = 0
    /\ toRun \in { {r} : r \in Resources } \cup { {} }
    /\ calls = <<>>
    /\ pc = [r \in Resources |-> "idle"]
    /\ has_next = [r \in Resources |-> FALSE]
    /\ cursor = [r \in Resources |-> <<>>]
    /\ lst = [r \in Resources |-> <<>>]
    /\ tmp_df = [r \in Resources |-> NoFrame]
    /\ response = [r \in Resources |-> None]
    /\ result = [r \in Resources |-> None]
    /\ exc = [r \in Resources |-> "none"]
    /\ request = [r \in Resources |-> None]
    /\ inflight = [r \in Resources |-> 0]
    /\ outcome = [r \in Resources |-> [kind |-> "none", status_code |-> 0]]
    /\ nreq = [r \in Resources |-> 0]
    /\ npages = [r \in Resources |-> 0]
    /\ served = [r \in Resources |-> <<>>]
    /\ failure = [r \in Resources |-> "none"]
    /\ alone = [r \in Resources |-> FrameAtStart]

(* ---------------------------- actions --------------------------------- *)
\* The clock advances. Only Send reads it, so the seconds that pass while a
\* request is outstanding or being parsed are taken at the next loop test.
Tick ==
    /\ now < MaxClock
    /\ toRun = {} \/ \E r \in toRun : pc[r] \in {"idle", "while"}
    /\ now' = now + 1
    /\ UNCHANGED << CB_API_KEY, CB_SECRET_KEY, supply, toRun, calls, pc, has_next, cursor,
                    lst, tmp_df, response, result, exc, request, inflight,
                    outcome, nreq, npages, served, failure, alone >>

\* cb_get_all_accounts() / cb_get_all_orders() is called: has_next = True,
\* cursor = '', lst = [].
Call(r) ==
    /\ r \in toRun
    /\ pc[r] = "idle"
    /\ pc' = [pc EXCEPT ![r] = "while"]
    /\ has_next' = [has_next EXCEPT ![r] = TRUE]
    /\ cursor' = [cursor EXCEPT ![r] = <<>>]
    /\ lst' = [lst EXCEPT ![r] = <<>>]
    /\ alone' = [alone EXCEPT ![r] = AloneCall(@)]
    /\ UNCHANGED << now, CB_API_KEY, CB_SECRET_KEY, supply, toRun, calls, tmp_df, response,
                    result, exc, request, inflight, outcome, nreq, npages,
                    served, failure >>

\* Locals kept in module globals: a call that ends clears them for every
\* call in progress.
DropAllFrames(r) ==
    /\ has_next' = [q \in Resources |-> FALSE]
    /\ cursor' = [q \in Resources |-> <<>>]
    /\ lst' = [q \in Resources |-> <<>>]
    /\ tmp_df' = [q \in Resources |-> NoFrame]
    /\ response' = [q \in Resources |-> None]

\* The frame of cb_get_all_* is gone once it has returned or raised.
DropFrame(r) ==
    /\ has_next' = [has_next EXCEPT ![r] = FALSE]
    /\ cursor' = [cursor EXCEPT ![r] = <<>>]
    /\ lst' = [lst EXCEPT ![r] = <<>>]
    /\ tmp_df' = [tmp_df EXCEPT ![r] = NoFrame]
    /\ response' = [response EXCEPT ![r] = None]

\* while has_next: cb_connect(url_path, limit, cursor) builds the signed
\* request and hands it to requests.get. The signature is computed before the
\* try block: with no secret, the AttributeError of secret_key.encode leaves
\* cb_connect and the paginator, and nothing is sent.
Send(r) ==
    /\ pc[r] = "while"
    /\ LoopTest(has_next[r])
    /\ IF EncodeRaises(CB_SECRET_KEY)
       THEN /\ pc' = [pc EXCEPT ![r] = "raised"]
            /\ exc' = [exc EXCEPT ![r] = "AttributeError"]
            /\ DropFrame(r)
            /\ UNCHANGED << request, inflight, nreq >>
       ELSE /\ request' = [request EXCEPT ![r] =
                  BuildRequest(UrlPath(r), Limit(r), cursor[r], CB_SECRET_KEY,
                               CB_API_KEY, now)]
            /\ inflight' = [inflight EXCEPT ![r] = @ + 1]
            /\ nreq' = [nreq EXCEPT ![r] = Min(@ + 1, MaxCount)]
            /\ pc' = [pc EXCEPT ![r] = AfterSend]
            /\ UNCHANGED << has_next, cursor, lst, tmp_df, response, exc >>
    /\ alone' = [alone EXCEPT ![r] = AloneSend(@, CB_SECRET_KEY)]
    /\ UNCHANGED << now, CB_API_KEY, CB_SECRET_KEY, supply, toRun, calls, result,
                    outcome, npages, served, failure >>

\* What cb_connect returns for a transport outcome: the response when
\* requests.get and raise_for_status raise nothing; otherwise the exception is
\* caught and printed (requests' HTTPError is not urllib's, so it falls to
\* `except Exception`) and the function falls off its end, returning None.
ConnectResult(out) ==
    IF out.kind = "network" THEN None
    ELSE IF RaisesForStatus(out.status_code) THEN None
    ELSE [status_code |-> out.status_code, text |-> out.text]

\* The transport outcomes of one request.
Outcomes(r, from) ==
    { [kind |-> "network", status_code |-> 0, text |-> NotJson] } \cup
    { [kind |-> "http", status_code |-> s, text |-> b] :
        s \in {s \in Statuses : Is2xx(s)}, b \in Bodies(r, from) } \cup
    { [kind |-> "http", status_code |-> s, text |-> b] :
        s \in {s \in Statuses : ~Is2xx(s) /\ ~RaisesForStatus(s)},
        b \in RedirectBodies(r, from) } \cup
    { [kind |-> "http", status_code |-> s, text |-> NotJson] :
        s \in {s \in Statuses : RaisesForStatus(s)} }

\* A page as the API documents it: has_next and the record array of the
\* resource; the cursor may be left out and then counts as empty.
WellFormed(r, text) ==
    /\ IsJson(text)
    /\ {"has_next", "records"} \subseteq text.keys
    /\ text.field = RecordPath(r)
    /\ text.value.kind = "list"

\* How the error taxonomy classifies a transport outcome: a connection
\* failure, a status that is not 2xx, a body that is not a page.
FailureOf(r, out) ==
    IF out.kind = "network" THEN "NetworkError"
    ELSE IF ~Is2xx(out.status_code) THEN "HttpError"
    ELSE IF ~WellFormed(r, out.text) THEN "ParseError"
    ELSE "none"

\* requests.get returns or raises, and cb_connect returns to the paginator.
Receive(r) ==
    /\ pc[r] = "await"
    /\ \E out \in Outcomes(r, supply) :
        /\ response' = [response EXCEPT ![r] = ConnectResult(out)]
        /\ outcome' = [outcome EXCEPT ![r] =
              [kind |-> out.kind, status_code |-> out.status_code]]
        /\ supply' = IF out.kind = "http" /\ IsJson(out.text)
                        /\ "records" \in out.text.keys
                     THEN supply + Len(out.text.value.items) ELSE supply
        /\ failure' = [failure EXCEPT ![r] =
              IF @ = "none" THEN FailureOf(r, out) ELSE @]
        /\ served' = [served EXCEPT ![r] =
              IF FailureOf(r, out) = "none" THEN @ \o out.text.value.items ELSE @]
    /\ inflight' = [inflight EXCEPT ![r] = @ - 1]
    /\ pc' = [pc EXCEPT ![r] = "parse"]
    /\ alone' = [alone EXCEPT ![r] = AloneReceive(@)]
    /\ UNCHANGED << now, CB_API_KEY, CB_SECRET_KEY, toRun, has_next, cursor, lst,
                    tmp_df, result, exc, request, nreq, npages, calls >>

\* cb_connect(url_path, limit, cursor) is called from a notebook cell, with a
\* path that may carry a query string; the value it returns is dropped.
\* `path` records the part of url_path before the query string. With no
\* secret the call raises before requests.get, and no request is recorded.
DirectCall(path, query, limit, cur) ==
    /\ toRun = {}
    /\ Len(calls) < MaxCalls
    /\ calls' = IF EncodeRaises(CB_SECRET_KEY) THEN calls
                ELSE Append(calls,
                  [ path |-> path,
                    request |-> BuildRequest(path \o query, limit, cur,
                                             CB_SECRET_KEY, CB_API_KEY, now) ])
    /\ UNCHANGED << now, CB_API_KEY, CB_SECRET_KEY, supply, toRun, pc, has_next,
                    cursor, lst, tmp_df, response, result, exc, request, inflight,
                    outcome, nreq, npages, served, failure, alone >>

\* The body of the while loop after cb_connect has returned (lines 157-162).
Process(r) ==
    /\ pc[r] = "parse"
    /\ LET resp == response[r]
           err == ParseError(r, resp)
       IN  IF err # "none"
           THEN /\ pc' = [pc EXCEPT ![r] = "raised"]
                /\ exc' = [exc EXCEPT ![r] = err]
                /\ DropFrame(r)
                /\ UNCHANGED npages
           ELSE LET df == JsonNormalize(PullRecords(resp.text.value))
                IN  /\ has_next' = [has_next EXCEPT ![r] = resp.text.has_next]
                    /\ cursor' = [cursor EXCEPT ![r] = resp.text.cursor]
                    /\ tmp_df' = [tmp_df EXCEPT ![r] = df]
                    /\ lst' = [lst EXCEPT ![r] = Extend(@, df.rows)]
                    /\ npages' = [npages EXCEPT ![r] = Min(@ + 1, MaxCount)]
                    /\ pc' = [pc EXCEPT ![r] = "while"]
                    /\ UNCHANGED << response, exc >>
    /\ alone' = [alone EXCEPT ![r] = AloneProcess(r, @, response[r])]
    /\ UNCHANGED << now, CB_API_KEY, CB_SECRET_KEY, supply, toRun, calls, result, request,
                    inflight, outcome, nreq, served, failure >>

\* The loop is left (lines 164-167): df = pd.DataFrame(lst); df.columns =
\* tmp_df.columns.values.tolist() raises ValueError when the two widths differ;
\* return df.
Finish(r) ==
    /\ pc[r] = "while"
    /\ ~LoopTest(has_next[r])
    /\ IF Len(tmp_df[r].columns) # DataFrameWidth(lst[r])
       THEN /\ pc' = [pc EXCEPT ![r] = "raised"]
            /\ exc' = [exc EXCEPT ![r] = "ValueError"]
            /\ UNCHANGED result
       ELSE /\ pc' = [pc EXCEPT ![r] = "returned"]
            /\ result' = [result EXCEPT ![r] =
                  [columns |-> tmp_df[r].columns, rows |-> lst[r]]]
            /\ UNCHANGED exc
    /\ DropFrame(r)
    /\ alone' = [alone EXCEPT ![r] = AloneFinish(@)]
    /\ UNCHANGED << now, CB_API_KEY, CB_SECRET_KEY, supply, toRun, calls, request,
                    inflight, outcome, nreq, npages, served, failure >>

Next ==
    \/ Tick
    \/ \E r \in Resources : Call(r)
    \/ \E r \in Resources : Send(r)
    \/ \E r \in Resources : Receive(r)
    \/ \E r \in Resources : Process(r)
    \/ \E r \in Resources : Finish(r)
    \/ \E path \in DirectPaths, query \in DirectQueries, limit \in DirectLimits,
          cur \in DirectCursors : DirectCall(path, query, limit, cur)

Spec == Init /\ [][Next]_vars

(* ----------------- the server that always has a next page ------------- *)
\* Every request is answered 200 with a well-formed page whose has_next is
\* true and whose cursor is not empty.
ServerAlwaysNext(r) ==
    /\ Receive(r)
    /\ response'[r] # None
    /\ Is2xx(response'[r].status_code)
    /\ WellFormed(r, response'[r].text)
    /\ response'[r].text.has_next
    /\ response'[r].text.cursor # <<>>

\* Finish is left out: its guard ~has_next never holds against this server.
NextAlwaysNext ==
    \/ Tick
    \/ \E r \in Resources : Call(r)
    \/ \E r \in Resources : Send(r)
    \/ \E r \in Resources : ServerAlwaysNext(r)
    \/ \E r \in Resources : Process(r)

\* The interpreter runs the paginator's next statement, and the server
\* answers every request.
SpecAlwaysNext ==
    /\ Init
    /\ [][NextAlwaysNext]_vars
    /\ \A r \in Resources :
        /\ WF_vars(Call(r))
        /\ WF_vars(Send(r))
        /\ WF_vars(ServerAlwaysNext(r))
        /\ WF_vars(Process(r))

(* ---------------- the server with finitely many pages ----------------- *)
\* Every request is answered, in any of the ways Receive allows, but a body
\* that says has_next=true is sent to the first MaxPages - 1 requests of a
\* paginator only.
ServerFinite(r) ==
    /\ Receive(r)
    /\ ( /\ response'[r] # None
         /\ IsJson(response'[r].text)
         /\ "has_next" \in response'[r].text.keys
         /\ response'[r].text.has_next ) => nreq[r] < MaxPages

NextFinite ==
    \/ Tick
    \/ \E r \in Resources : Call(r)
    \/ \E r \in Resources : Send(r)
    \/ \E r \in Resources : ServerFinite(r)
    \/ \E r \in Resources : Process(r)
    \/ \E r \in Resources : Finish(r)

\* The interpreter runs the paginator's next statement, and the server
\* answers every request.
SpecFinite ==
    /\ Init
    /\ [][NextFinite]_vars
    /\ \A r \in Resources :
        /\ WF_vars(Call(r))
        /\ WF_vars(Send(r))
        /\ WF_vars(ServerFinite(r))
        /\ WF_vars(Process(r))
        /\ WF_vars(Finish(r))

(* ------------------- both paginators at the same time ---------------- *)
\* cb_get_all_accounts and cb_get_all_orders are both called, each in a
\* thread of its own; their statements interleave in any order.
InitBoth ==
    /\ now = 1
    /\ CB_API_KEY \in ApiKeys
    /\ CB_SECRET_KEY \in Secrets \ {<<>>}
    /\ supply = 0
    /\ toRun = Resources
    /\ calls = <<>>
    /\ pc = [r \in Resources |-> "idle"]
    /\ has_next = [r \in Resources |-> FALSE]
    /\ cursor = [r \in Resources |-> <<>>]
    /\ lst = [r \in Resources |-> <<>>]
    /\ tmp_df = [r \in Resources |-> NoFrame]
    /\ response = [r \in Resources |-> None]
    /\ result = [r \in Resources |-> None]
    /\ exc = [r \in Resources |-> "none"]
    /\ request = [r \in Resources |-> None]
    /\ inflight = [r \in Resources |-> 0]
    /\ outcome = [r \in Resources |-> [kind |-> "none", status_code |-> 0]]
    /\ nreq = [r \in Resources |-> 0]
    /\ npages = [r \in Resources |-> 0]
    /\ served = [r \in Resources |-> <<>>]
    /\ failure = [r \in Resources |-> "none"]
    /\ alone = [r \in Resources |-> FrameAtStart]

\* The server of this session: a request meets a connection failure, or is
\* answered 200 with a page as documented, whose cursor is empty when it is
\* the last page and <<"c1">> when it is not.
ServerPages(r) ==
    /\ Receive(r)
    /\ \/ outcome'[r].kind = "network"
       \/ /\ response'[r] # None
          /\ Is2xx(response'[r].status_code)
          /\ WellFormed(r, response'[r].text)
          /\ response'[r].text.cursor =
                IF response'[r].text.has_next THEN <<"c1">> ELSE <<>>

NextBoth ==
    \/ \E r \in Resources : Call(r)
    \/ \E r \in Resources : Send(r)
    \/ \E r \in Resources : ServerPages(r)
    \/ \E r \in Resources : Process(r)
    \/ \E r \in Resources : Finish(r)

SpecBoth == InitBoth /\ [][NextBoth]_vars

(* ------------------------- claim vocabulary --------------------------- *)
\* The kind of the error taxonomy a Python exception leaving cb_get_all_*
\* stands for: the exceptions of json.loads, of the key lookups and of
\* json_normalize are parse errors; AttributeError (None has no .text) and
\* ValueError (the columns assignment) are errors of the paginator itself.
ErrorKind(e) ==
    IF e \in {"JSONDecodeError", "KeyError", "TypeError"} THEN "ParseError" ELSE e

Running(r) == pc[r] \in {"while", "await", "parse"}

Ended(r) == pc[r] \in {"returned", "raised"}

(* ------------------------------ claims -------------------------------- *)

\* C1: when pages were served, every one of them a well-formed page, and the
\* paginator has ended, it has returned, and the records it returns are
\* exactly the records of the pages served, page after page, each page in its
\* own order.
C1_RoundTrip ==
    \A r \in Resources :
        (Ended(r) /\ nreq[r] >= 1 /\ failure[r] = "none") =>
            /\ pc[r] = "returned"
            /\ RecordsOf(result[r]) = served[r]

\* C2: against the server that always answers has_next=true, a paginator
\* that has been called eventually fails with PaginationLimitExceeded.
C2_TerminatesWithLimit ==
    \A r \in Resources :
        (pc[r] = "while") ~> (pc[r] = "raised" /\ exc[r] = "PaginationLimitExceeded")

\* C3: when a page fetch failed in the transport or in the parser and the
\* paginator has raised, the error raised is of the kind of that failure.
C3_ErrorUnchanged ==
    \A r \in Resources :
        (pc[r] = "raised" /\ failure[r] # "none") => ErrorKind(exc[r]) = failure[r]

\* C4: once any page fetch has failed (a connection failure, a status that
\* is not 2xx, a body that is not a page), no result is returned.
C4_NoResultAfterFailure ==
    \A r \in Resources : failure[r] # "none" => result[r] = None

\* The record field of a received body is absent, or is not an array.
LacksRecordArray(r, text) ==
    /\ IsJson(text)
    /\ \/ "records" \notin text.keys
       \/ text.field # RecordPath(r)
       \/ text.value.kind # "list"

\* C5: the step that parses a received body whose record field is absent or
\* not an array ends the paginator with a parse error.
C5_MalformedIsParseError ==
    [][ \A r \in Resources :
          ( /\ pc[r] = "parse"
            /\ response[r] # None
            /\ LacksRecordArray(r, response[r].text)
            /\ pc'[r] # "parse" )
          => (pc'[r] = "raised" /\ ErrorKind(exc'[r]) = "ParseError") ]_vars

\* The signature as a function of (secret, timestamp, method, path, body).
SignatureOf(secret, timestamp, method, path, body) ==
    Hex(Hmac(secret, timestamp \o method \o path \o body))

\* The url cb_connect sends a request to.
UrlOf(url_path, limit, cur) ==
    url_prefix \o url_path \o <<"?limit=">> \o Str(limit)
        \o (IF cur # <<>> THEN <<"&cursor=">> \o cur ELSE <<>>)

\* Request q, built for a url_path whose part before the query string is
\* `path`, is signed over timestamp, method, path and body alone, and sent to
\* the url with limit and cursor.
SignedOverFive(q, path) ==
    /\ q.headers.sign = SignatureOf(CB_SECRET_KEY, q.headers.timestamp, q.method,
                                    path, q.body)
    /\ q.message = q.headers.timestamp \o q.method \o path \o q.body
    /\ q.url = UrlOf(q.url_path, q.limit, q.cursor)

\* C6: the signature header of every request (of a paginator, of a direct
\* call) is the keyed hash of timestamp, method, path without query string
\* and body under the secret, whatever limit and cursor are in the url: two
\* requests with the same five values carry the same signature.
C6_SignatureOfFiveValues ==
    /\ \A r \in Resources :
          request[r] # None =>
              /\ SignedOverFive(request[r], UrlPath(r))
              /\ request[r].limit = Limit(r)
    /\ \A i \in DOMAIN calls : SignedOverFive(calls[i].request, calls[i].path)
    /\ \A i, j \in DOMAIN calls :
          ( /\ calls[i].request.headers.timestamp = calls[j].request.headers.timestamp
            /\ calls[i].request.method = calls[j].request.method
            /\ calls[i].path = calls[j].path
            /\ calls[i].request.body = calls[j].request.body )
          => calls[i].request.headers.sign = calls[j].request.headers.sign

\* C6 witness: two requests of the same second and path that differ in limit,
\* cursor and query string, hence in url, and carry the same signature.
C6_Witness ==
    \E i, j \in DOMAIN calls :
        /\ calls[i].request.headers.timestamp = calls[j].request.headers.timestamp
        /\ calls[i].path = calls[j].path
        /\ calls[i].request.limit # calls[j].request.limit
        /\ calls[i].request.cursor # calls[j].request.cursor
        /\ calls[i].request.url_path # calls[j].request.url_path
        /\ calls[i].request.url # calls[j].request.url
        /\ calls[i].request.headers.sign = calls[j].request.headers.sign

\* How cb_connect's caller can class the value it got back: None, or a
\* response with its status.
ReturnedClass(resp) ==
    IF resp = None THEN "NetworkError"
    ELSE IF Is2xx(resp.status_code) THEN "Response"
    ELSE "HttpError"

OutcomeClass(o) ==
    IF o.kind = "network" THEN "NetworkError"
    ELSE IF Is2xx(o.status_code) THEN "Response"
    ELSE "HttpError"

\* C7: what cb_connect hands back tells a connection failure, a status that
\* is not 2xx (with the status) and a 2xx response apart.
C7_OutcomesDistinguished ==
    \A r \in Resources :
        pc[r] = "parse" =>
            /\ ReturnedClass(response[r]) = OutcomeClass(outcome[r])
            /\ (OutcomeClass(outcome[r]) # "NetworkError" =>
                    response[r].status_code = outcome[r].status_code)

\* C8: at most one request of a paginator is outstanding, it is outstanding
\* exactly while the paginator waits in requests.get, and a request is issued
\* only when every earlier page has been parsed.
C8_Sequential ==
    \A r \in Resources :
        /\ inflight[r] \in {0, 1}
        /\ (inflight[r] = 1 <=> pc[r] = "await")
        /\ (nreq[r] < MaxCount =>
              /\ (pc[r] \in {"await", "parse"} => nreq[r] = npages[r] + 1)
              /\ (pc[r] = "while" => nreq[r] = npages[r]))

\* C8 witness: the second request is outstanding, after page 1 was parsed.
C8_Witness ==
    \E r \in Resources : pc[r] = "await" /\ nreq[r] = 2 /\ npages[r] = 1 /\ inflight[r] = 1

\* The clock reading a timestamp string stands for.
TimeOf(ts) == CHOOSE t \in 0..(MaxClock + 1) : Str(t) = ts

\* C9: a step that builds a request stamps and signs it with the clock of
\* that step, never earlier than the timestamp of the request before it.
C9_FreshTimestamp ==
    [][ \A r \in Resources :
          (pc[r] = "while" /\ pc'[r] = "await") =>
              /\ request'[r].headers.timestamp = Str(now')
              /\ SubSeq(request'[r].message, 1, 1) = Str(now')
              /\ (request[r] # None =>
                    TimeOf(request[r].headers.timestamp)
                        <= TimeOf(request'[r].headers.timestamp)) ]_vars

\* C9 witness: a later request carries a later timestamp than the clock's
\* first reading.
C9_Witness ==
    \E r \in Resources :
        /\ pc[r] = "await"
        /\ nreq[r] >= 2
        /\ request[r].headers.timestamp = Str(now)
        /\ now > 1

\* C10: a paginator that has parsed a page with has_next=true and an empty
\* cursor does not go on, and no request after the first is built from an
\* empty cursor.
C10_EmptyCursorFails ==
    \A r \in Resources :
        /\ (Running(r) /\ npages[r] >= 1 /\ has_next[r]) => cursor[r] # <<>>
        /\ (nreq[r] >= 2 /\ request[r] # None) => request[r].cursor # <<>>

\* The key a request was signed with.
SigningKey(q) == q.headers.sign.hex.key

\* C11: with an empty or absent API secret no request is built or sent (by a
\* paginator, by a direct call), and a paginator that has gone past its first
\* loop test has failed; no request that was sent is signed with an empty key.
C11_NoRequestWithEmptySecret ==
    /\ CB_SECRET_KEY \in {<<>>, Absent} =>
          /\ calls = <<>>
          /\ \A r \in Resources :
                /\ request[r] = None
                /\ nreq[r] = 0
                /\ (pc[r] \notin {"idle", "while"} => pc[r] = "raised")
    /\ \A r \in Resources :
          request[r] # None => SigningKey(request[r]) \notin {<<>>, Absent}
    /\ \A i \in DOMAIN calls : SigningKey(calls[i].request) \notin {<<>>, Absent}

\* The frame of paginator r as the session holds it.
FrameOf(r) ==
    [ pc |-> pc[r], has_next |-> has_next[r], cursor |-> cursor[r],
      lst |-> lst[r], tmp_df |-> tmp_df[r], result |-> result[r],
      exc |-> exc[r] ]

\* C12: with both paginators running at once, their steps interleaved in any
\* order, each paginator's locals, and what it returns or raises, are at every
\* moment what the same call yields when run on its own against the
\* responses it was given.
C12_NoInterference ==
    \A r \in Resources : FrameOf(r) = alone[r]

\* C12 witness: both paginators have returned, the page of the orders having
\* been served between the two pages of the accounts (the server numbers its
\* records in the order it hands them out).
C12_Witness ==
    /\ toRun = Resources
    /\ \A r \in Resources : pc[r] = "returned"
    /\ RecordsOf(result["accounts"]) = <<1, 3>>
    /\ RecordsOf(result["orders"]) = <<2>>

\* Reading a url back: where a token stands in it (one past the end when it
\* does not occur), the text before '?limit=', and the values of its limit and
\* cursor parameters (empty when the parameter is not there).
IndexOf(s, t) ==
    CHOOSE i \in 1..(Len(s) + 1) :
        /\ i = Len(s) + 1 \/ s[i] = t
        /\ \A j \in 1..(i - 1) : s[j] # t

HasCursorParam(url) == IndexOf(url, "&cursor=") <= Len(url)

CursorParam(url) == SubSeq(url, IndexOf(url, "&cursor=") + 1, Len(url))

LimitParam(url) ==
    SubSeq(url, IndexOf(url, "?limit=") + 1, IndexOf(url, "&cursor=") - 1)

BeforeParams(url) == SubSeq(url, 1, IndexOf(url, "?limit=") - 1)

\* C13: every request of a paginator goes to the paginator's path with its
\* limit, the same as the request before it; the first request has no cursor
\* parameter; a later request carries the cursor of the page parsed just
\* before it: as its cursor parameter when that cursor is not empty, and, the
\* request builder appending no empty cursor, as no parameter when it is.
C13_CursorChaining ==
    [][ \A r \in Resources :
          (pc[r] = "while" /\ pc'[r] = "await") =>
              LET url == request'[r].url
              IN  /\ BeforeParams(url) = url_prefix \o UrlPath(r)
                  /\ LimitParam(url) = Str(Limit(r))
                  /\ (request[r] # None =>
                        /\ BeforeParams(url) = BeforeParams(request[r].url)
                        /\ LimitParam(url) = LimitParam(request[r].url))
                  /\ IF nreq[r] = 0
                     THEN ~HasCursorParam(url)
                     ELSE /\ response[r] # None
                          /\ CursorParam(url) = response[r].text.cursor
                          /\ HasCursorParam(url) <=>
                                response[r].text.cursor # <<>> ]_vars

\* C13 witness: the third request is outstanding, carrying the cursor of the
\* second page as its cursor parameter.
C13_Witness ==
    \E r \in Resources :
        /\ pc[r] = "await"
        /\ nreq[r] = 3
        /\ npages[r] = 2
        /\ response[r] # None
        /\ response[r].text.cursor = <<"c2">>
        /\ CursorParam(request[r].url) = <<"c2">>

\* The body cb_connect handed to paginator r says has_next=false.
GotLastPage(r) ==
    /\ response[r] # None
    /\ IsJson(response[r].text)
    /\ "has_next" \in response[r].text.keys
    /\ ~response[r].text.has_next

\* Paginator r has received a page with has_next=false: it is parsing it, has
\* parsed it, or has ended.
PastLastPage(r) ==
    \/ pc[r] = "parse" /\ GotLastPage(r)
    \/ pc[r] = "while" /\ npages[r] >= 1 /\ GotLastPage(r)
    \/ Ended(r)

\* C14: a paginator that has returned has issued as many requests as it has
\* parsed pages, every step issues at most one request, and from the moment
\* a page with has_next=false has been received no request is issued.
C14_OneRequestPerPage ==
    /\ [](\A r \in Resources :
            (pc[r] = "returned" /\ nreq[r] < MaxCount) => nreq[r] = npages[r])
    /\ [][ \A r \in Resources :
            /\ inflight'[r] <= inflight[r] + 1
            /\ PastLastPage(r) =>
                  /\ PastLastPage(r)'
                  /\ inflight'[r] <= inflight[r]
                  /\ request'[r] = request[r]
                  /\ nreq'[r] = nreq[r] ]_vars

\* C14 witness: a paginator has returned the records of two pages, having
\* issued two requests.
C14_Witness ==
    \E r \in Resources :
        /\ pc[r] = "returned"
        /\ npages[r] = 2
        /\ nreq[r] = 2
        /\ Len(result[r].rows) >= 2

\* C15: once a page fetch of a paginator has met a connection failure or a
\* status that is not 2xx, no step issues a request of that paginator.
C15_NoRequestAfterFailedFetch ==
    [][ \A r \in Resources :
          failure[r] \in {"NetworkError", "HttpError"} =>
              /\ inflight'[r] <= inflight[r]
              /\ request'[r] = request[r]
              /\ nreq'[r] = nreq[r] ]_vars

\* The body cb_connect handed to paginator r is a last page that has its
\* record array and no cursor field.
LastPageWithoutCursor(r) ==
    /\ response[r] # None
    /\ Is2xx(response[r].status_code)
    /\ IsJson(response[r].text)
    /\ response[r].text.keys = {"has_next", "records"}
    /\ response[r].text.field = RecordPath(r)
    /\ response[r].text.value.kind = "list"
    /\ ~response[r].text.has_next

\* C16: the step that parses a last page without cursor field takes the
\* cursor for empty, appends the page's records and leaves the paginator in
\* its loop, from where it returns.
C16_AbsentCursorIsEmpty ==
    [][ \A r \in Resources :
          (pc[r] = "parse" /\ LastPageWithoutCursor(r) /\ pc'[r] # "parse") =>
              /\ pc'[r] = "while"
              /\ cursor'[r] = <<>>
              /\ ~has_next'[r]
              /\ lst'[r] = lst[r] \o
                    [i \in 1..Len(response[r].text.value.items) |->
                        ToRow(response[r].text.value.items[i])] ]_vars

\* C17: the step that leaves the loop after a last page without records,
\* every page served having been a well-formed page, returns, and returns the
\* records of the pages that had some, in the order served.
C17_EmptyLastPageReturns ==
    [][ \A r \in Resources :
          ( /\ pc[r] = "while"
            /\ ~has_next[r]
            /\ npages[r] >= 1
            /\ failure[r] = "none"
            /\ tmp_df[r].rows = <<>>
            /\ pc'[r] # "while" )
          => (pc'[r] = "returned" /\ RecordsOf(result'[r]) = served[r]) ]_vars

\* C18: against the server with finitely many pages that answers every
\* request, a paginator that has been called ends, by returning or by raising,
\* and never issues more requests than the server has pages.
C18_EndsWithinPages ==
    /\ \A r \in Resources : Running(r) ~> Ended(r)
    /\ [](\A r \in Resources : nreq[r] <= MaxPages)

\* C18 witness: a paginator has returned after as many requests as the
\* server has pages.
C18_Witness ==
    \E r \in Resources :
        pc[r] = "returned" /\ nreq[r] = MaxPages /\ npages[r] = MaxPages

\* Request q is signed with the secret, and carries the key, that the module
\* globals hold.
SignedWithLoaded(q) ==
    /\ SigningKey(q) = CB_SECRET_KEY
    /\ q.headers.key = CB_API_KEY

\* C19: no step changes CB_API_KEY or CB_SECRET_KEY, whether it builds a
\* request, parses a page, returns or raises; so every request of a paginator
\* or of a direct call is signed with the secret, and carries the key, loaded
\* at the start.
C19_CredentialsReadOnly ==
    /\ [][UNCHANGED creds]_vars
    /\ [](\A r \in Resources : request[r] # None => SignedWithLoaded(request[r]))
    /\ [](\A i \in DOMAIN calls : SignedWithLoaded(calls[i].request))

\* C19 witness: a paginator has raised after its second request, and that
\* request is signed with the loaded secret.
C19_Witness ==
    \E r \in Resources :
        /\ pc[r] = "raised"
        /\ nreq[r] >= 2
        /\ request[r] # None
        /\ SignedWithLoaded(request[r])
        /\ CB_SECRET_KEY # <<>>

====
